---- MODULE Spec2Model ----
(***************************************************************************)
(* Model of POST /users/{user_id}/profile/ (routes/profiles.py) and of the *)
(* form schema it depends on (schemas/profiles.py).                        *)
(*                                                                         *)
(* A request is a process that moves through the dependency chain of the  *)
(* endpoint (as_form, then get_current_user_payload, in the order of the   *)
(* handler's parameters) and then through the handler body, one step per   *)
(* await.  The relational store and the object store are shared.           *)
(***************************************************************************)
EXTENDS Integers, Sequences, FiniteSets, TLC

VARIABLES
    profiles,   \* rows of UserProfileModel visible in the store
    bucket,     \* keys of the objects held by object storage
    pc,         \* position of each request
    req,        \* the request each slot is serving
    resp,       \* the response of each request
    loc,        \* locals of each request, with its history counters
    started     \* number of requests accepted so far

vars == <<profiles, bucket, pc, req, resp, loc, started>>

\* ------------------------------------------------------------------ bounds
MaxRequests == 2
MaxConcRequests == 2

Slots == {1, 2}

\* ------------------------------------------------------------ user store
AdminGroup == 3
UserIds == 1 .. 4

\* UserModel rows: 1 active user, 2 inactive user, 3 active admin; 4 absent.
UserTable ==
    { [id |-> 1, is_active |-> TRUE,  group_id |-> 1],
      [id |-> 2, is_active |-> FALSE, group_id |-> 1],
      [id |-> 3, is_active |-> TRUE,  group_id |-> AdminGroup] }

NoUser == [id |-> 0, is_active |-> FALSE, group_id |-> 0]

\* select(UserModel).where(UserModel.id == user_id) ... scalar_one_or_none()
get_user_by_id(user_id) ==
    IF \E u \in UserTable : u.id = user_id
    THEN CHOOSE u \in UserTable : u.id = user_id
    ELSE NoUser

\* ---------------------------------------------------------------- strings
\* A string is a sequence of one-character strings.
UpperCase == {"A", "B"}
LowerCase == {"a", "b", "o", "l", "d"}
Letters == UpperCase \cup LowerCase
Space == " "

LowerChar(c) ==
    CASE c = "A" -> "a"
      [] c = "B" -> "b"
      [] OTHER   -> c

\* str.lower()
lower(str) == [i \in 1 .. Len(str) |-> LowerChar(str[i])]

RECURSIVE lstrip(_)
lstrip(str) ==
    IF str # <<>> /\ Head(str) = Space THEN lstrip(Tail(str)) ELSE str

RECURSIVE rstrip(_)
rstrip(str) ==
    IF str # <<>> /\ str[Len(str)] = Space
    THEN rstrip(SubSeq(str, 1, Len(str) - 1))
    ELSE str

\* str.strip()
strip(str) == rstrip(lstrip(str))

\* ------------------------------------------------------------- validators
\* validation.validate_name: letters only, not empty
validate_name(value) ==
    /\ value # <<>>
    /\ \A i \in 1 .. Len(value) : value[i] \in Letters

Genders == {"man", "woman"}

\* validation.validate_gender: member of the enumeration
validate_gender(value) == value \in Genders

\* validation.validate_birth_date: not in the future, plausible age
validate_birth_date(value) == value = "1990-01-01"

\* validation.validate_image: accepted content type and size under the limit
validate_image(avatar) ==
    /\ avatar.content_type \in {"image/jpeg", "image/png"}
    /\ ~avatar.oversized

\* ProfileCreateSchema.validate_info
validate_info(value) == strip(value) # <<>>

\* date_of_birth: date = Form(...): the framework parses the ISO date
ParsesAsDate(raw) == raw # "not-a-date"

\* --------------------------------------------------------------- requests
BadToken == [valid |-> FALSE, user_id |-> 0]
Tokens == {BadToken} \cup {[valid |-> TRUE, user_id |-> u] : u \in UserIds}

NoHeader == [present |-> FALSE, scheme |-> "", token |-> BadToken]
Headers ==
    {NoHeader}
    \cup {[present |-> TRUE, scheme |-> "Basic", token |-> [valid |-> TRUE, user_id |-> 1]]}
    \cup {[present |-> TRUE, scheme |-> "Bearer", token |-> t] : t \in Tokens}

Names == { <<"A", "b">>, <<"a", "1">> }
GenderInputs == {"man", "robot"}
DateInputs == {"1990-01-01", "2999-01-01", "1000-01-01", "not-a-date"}
InfoInputs == { <<" ", "A", " ">>, <<" ", " ">> }
Avatars ==
    { [content_type |-> "image/jpeg", oversized |-> FALSE],
      [content_type |-> "text/plain", oversized |-> FALSE],
      [content_type |-> "image/jpeg", oversized |-> TRUE] }

Requests ==
    [ header : Headers, user_id : UserIds,
      first_name : Names, last_name : Names, gender : GenderInputs,
      date_of_birth : DateInputs, info : InfoInputs, avatar : Avatars ]

ValidFields(r) ==
    /\ validate_name(r.first_name)
    /\ validate_name(r.last_name)
    /\ validate_gender(r.gender)
    /\ ParsesAsDate(r.date_of_birth)
    /\ validate_birth_date(r.date_of_birth)
    /\ validate_info(r.info)
    /\ validate_image(r.avatar)

\* the requests of the concurrent specification: valid forms, bearer tokens
RaceRequests ==
    { r \in Requests :
        /\ ValidFields(r)
        /\ r.header.present /\ r.header.scheme = "Bearer" /\ r.header.token.valid }

NoRequest ==
    [ header |-> NoHeader, user_id |-> 0,
      first_name |-> <<>>, last_name |-> <<>>, gender |-> "",
      date_of_birth |-> "", info |-> <<>>,
      avatar |-> [content_type |-> "", oversized |-> FALSE] ]

\* ------------------------------------------------------------ the stores
\* avatar_key = f"avatars/{user_id}_avatar.jpg"
AvatarKey(user_id) == [url |-> FALSE, user_id |-> user_id]

\* s3_client.get_file_url(key)
get_file_url(key) == [url |-> TRUE, user_id |-> key.user_id]

NoRow ==
    [ id |-> 0, user_id |-> 0, first_name |-> <<>>, last_name |-> <<>>,
      gender |-> "", date_of_birth |-> "", info |-> <<>>,
      avatar |-> AvatarKey(0) ]

\* a profile row that an earlier request left in the store
StoredRow(user_id, id) ==
    [ id |-> id, user_id |-> user_id, first_name |-> <<"o", "l", "d">>,
      last_name |-> <<"o", "l", "d">>, gender |-> "man",
      date_of_birth |-> "1990-01-01", info |-> <<"o", "l", "d">>,
      avatar |-> AvatarKey(user_id) ]

ExistingUserIds == {u.id : u \in UserTable}

InitialStores ==
    { {StoredRow(u, Cardinality({v \in owners : v <= u})) : u \in owners} :
        owners \in SUBSET ExistingUserIds }

ProfilesOf(store, user_id) == {p \in store : p.user_id = user_id}

NextId(store) == Cardinality(store) + 1

\* a store without the unique constraint on user_id
UniqueViolationUnchecked(store, row) == FALSE

\* UserProfileModel.user_id is unique: the insert of a second row for the
\* same user is rejected by the store
UniqueViolation(store, row) == ProfilesOf(store, row.user_id) # {}

\* ------------------------------------------------------------- responses
NoResponse == [status |-> 0, errors |-> <<>>, body |-> NoRow]

HTTPException(status) == [status |-> status, errors |-> <<>>, body |-> NoRow]

ValidationFailure(errors) == [status |-> 422, errors |-> errors, body |-> NoRow]

NoLocals ==
    [ form_errors |-> <<>>, uploads |-> 0, uploaded |-> FALSE,
      db_reads |-> 0, db_commits |-> 0, pending |-> NoRow, row_id |-> 0,
      failed |-> "none", snap |-> {} ]

\* ------------------------------------------------------------------ Init
Init ==
    /\ profiles \in InitialStores
    /\ bucket = {AvatarKey(p.user_id) : p \in profiles}
    /\ pc = [s \in Slots |-> "idle"]
    /\ req = [s \in Slots |-> NoRequest]
    /\ resp = [s \in Slots |-> NoResponse]
    /\ loc = [s \in Slots |-> NoLocals]
    /\ started = 0

Respond(s, r) ==
    /\ resp' = [resp EXCEPT ![s] = r]
    /\ pc' = [pc EXCEPT ![s] = "done"]

Goto(s, label) ==
    /\ pc' = [pc EXCEPT ![s] = label]
    /\ UNCHANGED resp

\* ---------------------------------------------------------------- actions
\* the server accepts a request and starts to solve the dependencies
Receive(s, inputs, limit) ==
    /\ pc[s] = "idle"
    /\ started < limit
    /\ started' = started + 1
    /\ \E r \in inputs : req' = [req EXCEPT ![s] = r]
    /\ loc' = [loc EXCEPT ![s] = [NoLocals EXCEPT !.snap = profiles]]
    /\ resp' = [resp EXCEPT ![s] = NoResponse]
    /\ pc' = [pc EXCEPT ![s] = "as_form"]
    /\ UNCHANGED <<profiles, bucket>>

\* validation that reports the first failed field only
SchemaErrorsFirstOnly(r) ==
    IF ~validate_name(r.first_name) THEN <<"first_name">>
    ELSE IF ~validate_name(r.last_name) THEN <<"last_name">>
    ELSE IF ~validate_gender(r.gender) THEN <<"gender">>
    ELSE IF ~validate_birth_date(r.date_of_birth) THEN <<"date_of_birth">>
    ELSE IF ~validate_info(r.info) THEN <<"info">>
    ELSE IF ~validate_image(r.avatar) THEN <<"avatar">>
    ELSE <<>>

\* the errors of the pydantic ValidationError, one per failed field, in the
\* order of the fields of ProfileCreateSchema
SchemaErrors(r) ==
    (IF validate_name(r.first_name) THEN <<>> ELSE <<"first_name">>)
    \o (IF validate_name(r.last_name) THEN <<>> ELSE <<"last_name">>)
    \o (IF validate_gender(r.gender) THEN <<>> ELSE <<"gender">>)
    \o (IF validate_birth_date(r.date_of_birth) THEN <<>> ELSE <<"date_of_birth">>)
    \o (IF validate_info(r.info) THEN <<>> ELSE <<"info">>)
    \o (IF validate_image(r.avatar) THEN <<>> ELSE <<"avatar">>)

\* the errors of the parameters of as_form that the framework cannot parse
FormErrors(r) ==
    IF ParsesAsDate(r.date_of_birth) THEN <<>> ELSE <<"date_of_birth">>

\* data: ProfileCreateSchema = Depends(ProfileCreateSchema.as_form), the
\* first dependency of the handler.  as_form is called only when all its
\* parameters parse; otherwise their errors are kept until every dependency
\* is solved.
as_form(s) ==
    /\ pc[s] = "as_form"
    /\ IF FormErrors(req[s]) # <<>>
       THEN /\ loc' = [loc EXCEPT ![s].form_errors = FormErrors(req[s])]
            /\ Goto(s, "auth")
       ELSE IF SchemaErrors(req[s]) # <<>>
       THEN /\ Respond(s, ValidationFailure(SchemaErrors(req[s])))
            /\ UNCHANGED loc
       ELSE /\ Goto(s, "auth")
            /\ UNCHANGED loc
    /\ UNCHANGED <<profiles, bucket, req, started>>

\* jwt_manager.decode_access_token: claims, or raises
TokenDecodes(token) == token.valid

\* payload: dict = Depends(get_current_user_payload), the second dependency
get_current_user_payload(s) ==
    /\ pc[s] = "auth"
    /\ LET h == req[s].header IN
       IF ~h.present
       THEN Respond(s, HTTPException(401))
       ELSE IF h.scheme # "Bearer"
       THEN Respond(s, HTTPException(401))
       ELSE IF ~TokenDecodes(h.token)
       THEN Respond(s, HTTPException(401))
       ELSE IF loc[s].form_errors # <<>>
       THEN Respond(s, ValidationFailure(loc[s].form_errors))
       ELSE Goto(s, "upload")
    /\ UNCHANGED <<profiles, bucket, req, loc, started>>

\* an upload whose S3FileUploadError is swallowed: the handler goes on
upload_avatar_swallowing_error(s) ==
    /\ pc[s] = "upload"
    /\ IF ~validate_image(req[s].avatar)
       THEN /\ Respond(s, HTTPException(422))
            /\ UNCHANGED <<bucket, loc>>
       ELSE \E stored \in BOOLEAN :
            /\ loc' = [loc EXCEPT ![s].uploads = @ + 1, ![s].uploaded = stored]
            /\ bucket' = IF stored THEN bucket \cup {AvatarKey(req[s].user_id)}
                         ELSE bucket
            /\ Goto(s, "current_user")
    /\ UNCHANGED <<profiles, req, started>>

\* validate_image(data.avatar), then s3_client.upload_file(avatar_key, bytes):
\* the one call to object storage, which stores the object or raises
\* S3FileUploadError
upload_avatar(s) ==
    /\ pc[s] = "upload"
    /\ IF ~validate_image(req[s].avatar)
       THEN /\ Respond(s, HTTPException(422))
            /\ UNCHANGED <<bucket, loc>>
       ELSE \E stored \in BOOLEAN :
            /\ loc' = [loc EXCEPT ![s].uploads = @ + 1, ![s].uploaded = stored]
            /\ IF stored
               THEN /\ bucket' = bucket \cup {AvatarKey(req[s].user_id)}
                    /\ Goto(s, "current_user")
               ELSE /\ bucket' = bucket
                    /\ Respond(s, HTTPException(500))
    /\ UNCHANGED <<profiles, req, started>>

\* a handler without the permission check
check_current_user_without_permission(s) ==
    /\ pc[s] = "current_user"
    /\ loc' = [loc EXCEPT ![s].db_reads = @ + 1]
    /\ LET current_user == get_user_by_id(req[s].header.token.user_id)
       IN  IF current_user = NoUser
           THEN Respond(s, HTTPException(401))
           ELSE Goto(s, "existing")
    /\ UNCHANGED <<profiles, bucket, req, started>>

\* a handler that deletes the uploaded avatar when it rejects the caller
check_current_user_compensating(s) ==
    /\ pc[s] = "current_user"
    /\ loc' = [loc EXCEPT ![s].db_reads = @ + 1]
    /\ LET current_user_id == req[s].header.token.user_id
           current_user == get_user_by_id(current_user_id)
           is_admin == current_user.group_id = AdminGroup
       IN  IF current_user = NoUser
           THEN /\ Respond(s, HTTPException(401))
                /\ bucket' = bucket \ {AvatarKey(req[s].user_id)}
           ELSE IF current_user_id # req[s].user_id /\ ~is_admin
           THEN /\ Respond(s, HTTPException(403))
                /\ bucket' = bucket \ {AvatarKey(req[s].user_id)}
           ELSE /\ Goto(s, "existing")
                /\ bucket' = bucket
    /\ UNCHANGED <<profiles, req, started>>

\* current_user = await get_user_by_id(db, current_user_id), the check that
\* it exists and the permission check
check_current_user(s) ==
    /\ pc[s] = "current_user"
    /\ loc' = [loc EXCEPT ![s].db_reads = @ + 1]
    /\ LET current_user_id == req[s].header.token.user_id
           current_user == get_user_by_id(current_user_id)
           is_admin == current_user.group_id = AdminGroup
       IN  IF current_user = NoUser
           THEN Respond(s, HTTPException(401))
           ELSE IF current_user_id # req[s].user_id /\ ~is_admin
           THEN Respond(s, HTTPException(403))
           ELSE Goto(s, "existing")
    /\ UNCHANGED <<profiles, bucket, req, started>>

\* a handler without the duplicate check
check_existing_profile_skipped(s) ==
    /\ pc[s] = "existing"
    /\ loc' = [loc EXCEPT ![s].db_reads = @ + 1]
    /\ Goto(s, "target_user")
    /\ UNCHANGED <<profiles, bucket, req, started>>

\* select(UserProfileModel).where(user_id == user_id), scalar_one_or_none():
\* more than one row raises, one row is the duplicate
check_existing_profile(s) ==
    /\ pc[s] = "existing"
    /\ loc' = [loc EXCEPT ![s].db_reads = @ + 1]
    /\ LET found == ProfilesOf(profiles, req[s].user_id) IN
       IF Cardinality(found) > 1
       THEN Respond(s, HTTPException(500))
       ELSE IF found # {}
       THEN Respond(s, HTTPException(400))
       ELSE Goto(s, "target_user")
    /\ UNCHANGED <<profiles, bucket, req, started>>

\* a row built from the fields as they were submitted
NewProfileAsSubmitted(r) ==
    [ id |-> 0, user_id |-> r.user_id,
      first_name |-> r.first_name,
      last_name |-> r.last_name,
      gender |-> r.gender,
      date_of_birth |-> r.date_of_birth,
      info |-> r.info,
      avatar |-> AvatarKey(r.user_id) ]

\* the row that create_user_profile hands to create_profile
NewProfile(r) ==
    [ id |-> 0, user_id |-> r.user_id,
      first_name |-> lower(r.first_name),
      last_name |-> lower(r.last_name),
      gender |-> r.gender,
      date_of_birth |-> r.date_of_birth,
      info |-> strip(r.info),
      avatar |-> AvatarKey(r.user_id) ]

\* a handler that checks that the target exists, not that it is active
check_target_user_ignoring_is_active(s) ==
    /\ pc[s] = "target_user"
    /\ LET user == get_user_by_id(req[s].user_id) IN
       IF user = NoUser
       THEN /\ loc' = [loc EXCEPT ![s].db_reads = @ + 1]
            /\ Respond(s, HTTPException(401))
       ELSE /\ loc' = [loc EXCEPT ![s].db_reads = @ + 1,
                                  ![s].pending = NewProfile(req[s])]
            /\ Goto(s, "commit")
    /\ UNCHANGED <<profiles, bucket, req, started>>

\* user = await get_user_by_id(db, user_id) and the check that it is active;
\* then create_profile builds the row and adds it to the session
check_target_user(s) ==
    /\ pc[s] = "target_user"
    /\ LET user == get_user_by_id(req[s].user_id) IN
       IF user = NoUser \/ ~user.is_active
       THEN /\ loc' = [loc EXCEPT ![s].db_reads = @ + 1]
            /\ Respond(s, HTTPException(401))
       ELSE /\ loc' = [loc EXCEPT ![s].db_reads = @ + 1,
                                  ![s].pending = NewProfile(req[s])]
            /\ Goto(s, "commit")
    /\ UNCHANGED <<profiles, bucket, req, started>>

\* create_profile: await db.commit().  The commit writes the pending row or
\* raises SQLAlchemyError (always when the row breaks the unique constraint);
\* the handler of the error rolls the session back and re-raises, and the
\* request ends with a 500.
commit_profile(s) ==
    /\ pc[s] = "commit"
    /\ \E raises \in BOOLEAN :
       /\ UniqueViolation(profiles, loc[s].pending) => raises
       /\ IF raises
          THEN /\ loc' = [loc EXCEPT ![s].db_commits = @ + 1,
                                     ![s].pending = NoRow,
                                     ![s].failed = "commit"]
               /\ profiles' = profiles
               /\ Respond(s, HTTPException(500))
          ELSE /\ loc' = [loc EXCEPT ![s].db_commits = @ + 1,
                                     ![s].pending = NoRow,
                                     ![s].row_id = NextId(profiles)]
               /\ profiles' = profiles \cup
                    {[loc[s].pending EXCEPT !.id = NextId(profiles)]}
               /\ Goto(s, "refresh")
    /\ UNCHANGED <<bucket, req, started>>

\* create_profile: await db.refresh(profile).  When it raises, the rollback
\* finds nothing to undo (the transaction is committed) and the error is
\* re-raised.
refresh_profile(s) ==
    /\ pc[s] = "refresh"
    /\ \E raises \in BOOLEAN :
       IF raises
       THEN /\ loc' = [loc EXCEPT ![s].db_reads = @ + 1, ![s].failed = "refresh"]
            /\ Respond(s, HTTPException(500))
       ELSE /\ loc' = [loc EXCEPT ![s].db_reads = @ + 1]
            /\ Goto(s, "get_file_url")
    /\ UNCHANGED <<profiles, bucket, req, started>>

\* the row that a request committed
CommittedRow(s) == CHOOSE p \in profiles : p.id = loc[s].row_id

\* profile.avatar = await s3_client.get_file_url(profile.avatar); return
\* profile.  The assignment is never committed: the stored row keeps the key.
resolve_avatar(s) ==
    /\ pc[s] = "get_file_url"
    /\ Respond(s, [status |-> 201, errors |-> <<>>,
                   body |-> [CommittedRow(s) EXCEPT !.avatar = get_file_url(@)]])
    /\ UNCHANGED <<profiles, bucket, req, loc, started>>

\* the response is sent and the slot serves the next request
Finish(s) ==
    /\ pc[s] = "done"
    /\ pc' = [pc EXCEPT ![s] = "idle"]
    /\ req' = [req EXCEPT ![s] = NoRequest]
    /\ resp' = [resp EXCEPT ![s] = NoResponse]
    /\ loc' = [loc EXCEPT ![s] = NoLocals]
    /\ UNCHANGED <<profiles, bucket, started>>

\* the steps of create_user_profile for the request of slot s
Step(s) ==
    \/ as_form(s)
    \/ get_current_user_payload(s)
    \/ upload_avatar(s)
    \/ check_current_user(s)
    \/ check_existing_profile(s)
    \/ check_target_user(s)
    \/ commit_profile(s)
    \/ refresh_profile(s)
    \/ resolve_avatar(s)
    \/ Finish(s)

\* one request at a time, every form and every header
Next ==
    \/ Receive(1, Requests, MaxRequests)
    \/ Step(1)

Spec == Init /\ [][Next]_vars

\* two requests in flight, valid forms and decodable tokens
NextConc ==
    \/ \E s \in Slots : Receive(s, RaceRequests, MaxConcRequests)
    \/ \E s \in Slots : Step(s)

SpecConc == Init /\ [][NextConc]_vars

\* ------------------------------------------------------------ properties
Done(s) == pc[s] = "done"

BearerForm(h) == h.present /\ h.scheme = "Bearer"

Authenticated(r) == BearerForm(r.header) /\ r.header.token.valid

ActingId(r) == r.header.token.user_id

ActingExists(r) == \E u \in UserTable : u.id = ActingId(r)

ActingIsAdmin(r) == \E u \in UserTable : u.id = ActingId(r) /\ u.group_id = 3

SelfOrAdmin(r) == ActingExists(r) /\ (ActingId(r) = r.user_id \/ ActingIsAdmin(r))

TargetActive(r) == \E u \in UserTable : u.id = r.user_id /\ u.is_active

HadProfile(s) == \E p \in loc[s].snap : p.user_id = req[s].user_id

\* the rows that appeared in the store since the request of s was received
RowsCreated(s) == profiles \ loc[s].snap

NoSideEffects(s) ==
    loc[s].uploads = 0 /\ loc[s].db_reads = 0 /\ loc[s].db_commits = 0

Fields == {"first_name", "last_name", "gender", "date_of_birth", "info", "avatar"}

NameOk(name) == name # <<>> /\ \A i \in DOMAIN name : name[i] \in Letters

\* the fields of a form that break a rule of section 4.2 or do not parse
Violated(r) ==
    {f \in Fields :
        \/ f = "first_name" /\ ~NameOk(r.first_name)
        \/ f = "last_name" /\ ~NameOk(r.last_name)
        \/ f = "gender" /\ r.gender \notin Genders
        \/ f = "date_of_birth" /\ r.date_of_birth # "1990-01-01"
        \/ f = "info" /\ \A i \in DOMAIN r.info : r.info[i] = Space
        \/ f = "avatar" /\ (r.avatar.oversized \/ r.avatar.content_type = "text/plain")}

Entries(errors, f) == Cardinality({i \in DOMAIN errors : errors[i] = f})

OneEntryPerViolatedField(s) ==
    \A f \in Fields :
        Entries(resp[s].errors, f) = IF f \in Violated(req[s]) THEN 1 ELSE 0

\* C1: a request whose Authorization header is missing or is not of the form
\* 'Bearer <token>' is answered 401 before anything else is done: never a
\* 422, no upload, no database read or write.
C1_UnauthorizedBeforeAnythingElse ==
    \A s \in Slots :
        (pc[s] # "idle" /\ ~BearerForm(req[s].header)) =>
            /\ NoSideEffects(s)
            /\ Done(s) => resp[s].status = 401

ForeignNonAdmin(r) ==
    /\ Authenticated(r)
    /\ ActingExists(r)
    /\ ActingId(r) # r.user_id
    /\ ~ActingIsAdmin(r)

\* C3 as stated: an authenticated request whose acting user exists, is not
\* the target and is not an admin is answered 403 whether or not the fields
\* and the avatar are valid, and creates no profile row.
C3_ForbiddenRegardlessOfValidity ==
    \A s \in Slots :
        (Done(s) /\ ForeignNonAdmin(req[s])) =>
            /\ resp[s].status = 403
            /\ RowsCreated(s) = {}

\* C3 amended: such a request is answered 403 when its fields and avatar
\* are valid and its upload succeeded (otherwise 422 or 500 come first); in
\* every case it creates no profile row.
C3_ForbiddenAfterValidationAndUpload ==
    \A s \in Slots :
        (Done(s) /\ ForeignNonAdmin(req[s])) =>
            /\ (ValidFields(req[s]) /\ loc[s].uploaded) => resp[s].status = 403
            /\ ~ValidFields(req[s]) => resp[s].status = 422
            /\ RowsCreated(s) = {}
            /\ loc[s].db_commits = 0

C3_Witness ==
    \E s \in Slots :
        /\ Done(s) /\ ForeignNonAdmin(req[s])
        /\ ValidFields(req[s]) /\ loc[s].uploaded
        /\ resp[s].status = 403

\* C4 as stated: a request whose target user is absent or inactive is
\* answered 401 whatever the profile store holds, the acting user being the
\* target or an admin, and creates no row for the target.
C4_UnauthorizedWhateverTheStore ==
    \A s \in Slots :
        (Done(s) /\ ~TargetActive(req[s])
            /\ (Authenticated(req[s]) => SelfOrAdmin(req[s]))) =>
            /\ resp[s].status = 401
            /\ RowsCreated(s) = {}

\* C4 amended: a request whose target user is absent or inactive is answered
\* 401 when it passed authentication, validation and upload, its acting user
\* is the target or an admin and the target has no profile (with a profile
\* the answer is 400); in every case no row is created for the target.
C4_UnauthorizedForUnusableTarget ==
    \A s \in Slots :
        (Done(s) /\ ~TargetActive(req[s])) =>
            /\ ( /\ Authenticated(req[s]) /\ ValidFields(req[s])
                 /\ loc[s].uploaded /\ SelfOrAdmin(req[s]) ) =>
                    resp[s].status = IF HadProfile(s) THEN 400 ELSE 401
            /\ RowsCreated(s) = {}
            /\ loc[s].db_commits = 0

C4_Witness ==
    \E s \in Slots :
        /\ Done(s) /\ ~TargetActive(req[s])
        /\ Authenticated(req[s]) /\ ValidFields(req[s])
        /\ loc[s].uploaded /\ SelfOrAdmin(req[s]) /\ ~HadProfile(s)
        /\ loc[s].db_reads = 3
        /\ resp[s].status = 401

\* C5 as stated: a request with a valid token and at least one invalid field
\* (an unparseable date included) is answered 422 with exactly one error
\* entry per violated field, for every combination of violated fields.
C5_OneEntryPerViolatedField ==
    \A s \in Slots :
        (Done(s) /\ Authenticated(req[s]) /\ Violated(req[s]) # {}) =>
            /\ resp[s].status = 422
            /\ OneEntryPerViolatedField(s)

\* C5 amended: when the date parses, the 422 has exactly one entry per
\* violated field; when the date does not parse, the 422 has the single
\* entry of date_of_birth, whatever the other fields are.
C5_OneEntryPerFieldWhenFormParses ==
    \A s \in Slots :
        (Done(s) /\ Authenticated(req[s]) /\ Violated(req[s]) # {}) =>
            /\ resp[s].status = 422
            /\ IF req[s].date_of_birth = "not-a-date"
               THEN resp[s].errors = <<"date_of_birth">>
               ELSE OneEntryPerViolatedField(s)

C5_Witness ==
    \E s \in Slots :
        /\ Done(s) /\ Authenticated(req[s])
        /\ req[s].date_of_birth = "2999-01-01"
        /\ Cardinality(Violated(req[s])) = 6
        /\ Len(resp[s].errors) = 6

Creatable(s) ==
    /\ Authenticated(req[s]) /\ ValidFields(req[s]) /\ loc[s].uploaded
    /\ SelfOrAdmin(req[s]) /\ TargetActive(req[s]) /\ ~HadProfile(s)

Created(s) ==
    /\ resp[s].status = 201
    /\ Cardinality(RowsCreated(s)) = 1
    /\ \A p \in RowsCreated(s) :
        /\ p.user_id = req[s].user_id
        /\ Len(p.first_name) = Len(req[s].first_name)
        /\ \A i \in DOMAIN p.first_name :
            p.first_name[i] \notin UpperCase
            /\ LowerChar(req[s].first_name[i]) = p.first_name[i]
        /\ Len(p.last_name) = Len(req[s].last_name)
        /\ \A i \in DOMAIN p.last_name :
            p.last_name[i] \notin UpperCase
            /\ LowerChar(req[s].last_name[i]) = p.last_name[i]
        /\ p.info # <<>> /\ Head(p.info) # Space /\ p.info[Len(p.info)] # Space
        /\ \E i, j \in DOMAIN req[s].info : p.info = SubSeq(req[s].info, i, j)
        /\ p.avatar = [url |-> FALSE, user_id |-> req[s].user_id]
        /\ resp[s].body = [p EXCEPT !.avatar = [url |-> TRUE, user_id |-> req[s].user_id]]

\* C6 as stated: valid token, valid fields, successful upload, acting user
\* the target or an admin, active target without a profile: the answer is
\* 201, exactly one row is created for the target with lower-cased names
\* and trimmed info, and the avatar of the response is the resolved URL.
C6_ValidRequestCreates ==
    \A s \in Slots : (Done(s) /\ Creatable(s)) => Created(s)

\* C6 amended: the same, provided the commit and the refresh of the insert
\* do not raise (otherwise the answer is a 500).
C6_ValidRequestCreatesWhenInsertSucceeds ==
    \A s \in Slots :
        (Done(s) /\ Creatable(s)) =>
            IF loc[s].failed = "none" THEN Created(s) ELSE resp[s].status = 500

C6_Witness ==
    \E s \in Slots :
        /\ Done(s) /\ Creatable(s) /\ loc[s].failed = "none"
        /\ resp[s].status = 201
        /\ req[s].first_name[1] \in UpperCase
        /\ Head(req[s].info) = Space
        /\ ActingId(req[s]) # req[s].user_id

\* C7: a request that passes authentication, validation, upload and
\* authorization and whose target already has a profile is answered 400,
\* and the profile store is as it was.
C7_DuplicateIsRejected ==
    \A s \in Slots :
        ( /\ Done(s) /\ Authenticated(req[s]) /\ ValidFields(req[s])
          /\ loc[s].uploaded /\ SelfOrAdmin(req[s]) /\ HadProfile(s) ) =>
            /\ resp[s].status = 400
            /\ profiles = loc[s].snap
            /\ loc[s].db_commits = 0

C7_Witness ==
    \E s \in Slots :
        /\ Done(s) /\ Authenticated(req[s]) /\ ValidFields(req[s])
        /\ loc[s].uploaded /\ SelfOrAdmin(req[s]) /\ HadProfile(s)
        /\ TargetActive(req[s])
        /\ started = 2
        /\ resp[s].status = 400

\* C8: when the commit or the refresh of the insert raises, the transaction
\* is rolled back and the error re-raised: no row of the request is visible
\* in the store and the request ends with an error, not a 201.
C8_FailedInsertLeavesNoRow ==
    \A s \in Slots :
        (Done(s) /\ loc[s].failed # "none") =>
            /\ resp[s].status = 500
            /\ loc[s].pending = NoRow
            /\ RowsCreated(s) = {}

\* C9: a request calls the upload at most once; when the call fails the
\* request ends with a 500 and no later step runs: no database read, no
\* insert.
C9_UploadFailureIsTerminal ==
    \A s \in Slots :
        /\ loc[s].uploads <= 1
        /\ (loc[s].uploads = 1 /\ ~loc[s].uploaded) =>
            /\ Done(s)
            /\ resp[s].status = 500
            /\ loc[s].db_reads = 0
            /\ loc[s].db_commits = 0
            /\ RowsCreated(s) = {}

C9_Witness ==
    \E s \in Slots :
        Done(s) /\ loc[s].uploads = 1 /\ ~loc[s].uploaded /\ resp[s].status = 500

UploadedFirst(s) ==
    /\ (loc[s].db_reads > 0 \/ loc[s].db_commits > 0) =>
            loc[s].uploads = 1 /\ loc[s].uploaded
    /\ loc[s].uploaded => AvatarKey(req[s].user_id) \in bucket

\* C10: the upload under the key of the target comes before every database
\* step, and the object is never removed: a request whose upload succeeded
\* leaves the object in storage however it ends.
C10_UploadFirstAndNeverCompensated ==
    /\ [](\A s \in Slots : UploadedFirst(s))
    /\ [][bucket \subseteq bucket']_vars

C10_Witness ==
    \E s \in Slots :
        /\ Done(s) /\ loc[s].uploaded
        /\ resp[s].status = 403
        /\ ~HadProfile(s)
        /\ AvatarKey(req[s].user_id) \in bucket

====
